---- MODULE Spec2Model ----
(***************************************************************************)
(* Model of the worker process of cs2-api (src/src/api/index.js, second    *)
(* half: lines 329-694): the BullMQ queues 'master-server-fetch',          *)
(* 'server-query' and 'offline-cleanup', their three workers, and the      *)
(* 'servers' table they write through Supabase.                            *)
(*                                                                         *)
(* Every `await` of a handler is a point where the other workers run, so   *)
(* every store round trip is one action.  The outcome of each external     *)
(* call (Gamedig probe, Supabase request, Redis command, master server     *)
(* query) is an input of its action.                                       *)
(*                                                                         *)
(* Of the API server (first half of the file) the model has the handler of *)
(* GET /api/servers as far as it pages its result.                         *)
(***************************************************************************)
EXTENDS Integers, Sequences, FiniteSets, TLC

VARIABLES
    now,              \* wall clock (new Date()), in days
    db,               \* table 'servers': address -> row, or NoRecord
    serverQueue,      \* queue 'server-query': waiting jobs, oldest first
    worker,           \* the handler runs of serverWorker, one per slot
    missRun,          \* history: Miss updates applied to an address since its last upsert
    lastRun,          \* history: the run of serverWorker that returned since a job was last taken
    masterWait,       \* queue 'master-server-fetch': waiting jobs
    masterDelayed,    \* the next instance of the repeatable poll job is scheduled
    master,           \* the handler run of masterWorker
    polls,            \* poll executions started so far
    lastMasterUpdate, \* Redis key 'last_master_update'
    cleanupWait,      \* queue 'offline-cleanup': waiting jobs
    cleanupDelayed,   \* the next instance of the repeatable cleanup job is scheduled
    cleanup,          \* the handler run of cleanupWorker
    lastSweep,        \* history: the cleanup run that returned since a cleanup job was last taken
    shutdown,         \* how far gracefulShutdown has come
    request           \* the run of the handler of GET /api/servers

vars == <<now, db, serverQueue, worker, missRun, lastRun, masterWait, masterDelayed, master,
          polls, lastMasterUpdate, cleanupWait, cleanupDelayed, cleanup, lastSweep,
          shutdown, request>>

registryVars == <<db, missRun, lastRun>>
workerVars == <<serverQueue, worker>>
masterVars == <<masterWait, masterDelayed, master, polls, lastMasterUpdate>>
cleanupVars == <<cleanupWait, cleanupDelayed, cleanup, lastSweep>>
apiVars == <<request>>

----------------------------------------------------------------------------
(* Bounds of the model. *)

\* The instants at which the clock is read, in days: time passes from one to
\* any later one.  They lie the retention period, and a day more, apart.
Instants == {0, 7, 8}

\* Poll executions that may start.
MaxPolls == 3

\* Jobs queued for one address when the probes start.
MaxJobs == 5

\* Jobs, counted from the end of the queue, that may be taken while another
\* run for their address is in flight.
MaxRace == 1

\* Addresses in the longest list master.getServers returns to a dispatch.
MaxServers == 250

----------------------------------------------------------------------------
(* Configuration and literals of the program. *)

\* config.worker.serverOfflineThreshold, default '3'.
serverOfflineThreshold == 3

\* config.worker.serverDeleteThresholdDays, default '7'.
serverDeleteThresholdDays == 7

\* const BATCH_SIZE = 100 of masterWorker.
BATCH_SIZE == 100

\* offline_since: null.  Timestamps are naturals, null is below all of them.
Null == -1

\* config.worker.concurrency handler runs of serverWorker may be active at once
\* (default 20); two slots are enough for every interleaving of two runs.
Workers == {1, 2}

\* Addresses as the master server lists them, 'ip:port', each given as the
\* list of its ':'-separated parts (what addr.split(':') returns).
A1 == <<"10.0.0.1", "27015">>
A2 == <<"10.0.0.2", "27015">>
NoPort == <<"10.0.0.3">>

Addrs == {A1, A2}


\* Results of master.getServers.
Discoveries == {<<>>, <<A1>>, <<A1, A1>>, <<A1, A2>>, <<NoPort>>}

----------------------------------------------------------------------------
(* Strings, as JavaScript handles them: a string is the sequence of its      *)
(* characters.                                                               *)

UpperCase == <<"A", "B", "C", "D", "E", "F", "G", "H", "I", "J", "K", "L", "M",
               "N", "O", "P", "Q", "R", "S", "T", "U", "V", "W", "X", "Y", "Z">>
LowerCase == <<"a", "b", "c", "d", "e", "f", "g", "h", "i", "j", "k", "l", "m",
               "n", "o", "p", "q", "r", "s", "t", "u", "v", "w", "x", "y", "z">>

\* The character c with its case changed from the alphabet `from` to `to`.
Recase(c, from, to) ==
    IF \E k \in 1..Len(from) : from[k] = c
    THEN to[CHOOSE k \in 1..Len(from) : from[k] = c]
    ELSE c

\* String.prototype.toLowerCase, toUpperCase
toLowerCase(str) == [k \in 1..Len(str) |-> Recase(str[k], UpperCase, LowerCase)]
toUpperCase(str) == [k \in 1..Len(str) |-> Recase(str[k], LowerCase, UpperCase)]

\* String.prototype.startsWith, includes
startsWith(str, prefix) ==
    Len(str) >= Len(prefix) /\ SubSeq(str, 1, Len(prefix)) = prefix

includes(str, part) ==
    \E k \in 0..(Len(str) - Len(part)) : SubSeq(str, k + 1, k + Len(part)) = part

\* String.prototype.split(','): the pieces between the commas.
RECURSIVE split(_)
split(str) ==
    IF \E k \in 1..Len(str) : str[k] = ","
    THEN LET k == CHOOSE j \in 1..Len(str) :
                     str[j] = "," /\ \A h \in 1..(j - 1) : str[h] # ","
         IN  <<SubSeq(str, 1, k - 1)>> \o split(SubSeq(str, k + 1, Len(str)))
    ELSE <<str>>

\* Array.prototype.join(',')
RECURSIVE join(_)
join(list) ==
    IF Len(list) = 0 THEN <<>>
    ELSE IF Len(list) = 1 THEN list[1]
    ELSE list[1] \o <<",">> \o join(Tail(list))

----------------------------------------------------------------------------
(* detectGamemode (src/src/utils/gamemode-detector.js).  serverData is given *)
(* as its name, its map and raw.tags; raw.tags is an array of strings, a     *)
(* string, or missing.                                                       *)

TagArray(list) == [type |-> "array", value |-> list]
TagString(str) == [type |-> "string", value |-> str]
NoTags == [type |-> "undefined"]

\* const tags = Array.isArray(raw.tags) ? raw.tags
\*            : (typeof raw.tags === 'string' ? raw.tags.split(',') : [])
Tags(serverData) ==
    IF serverData.tags.type = "array" THEN serverData.tags.value
    ELSE IF serverData.tags.type = "string" THEN split(serverData.tags.value)
    ELSE <<>>

\* tags.some(tag => tag.includes(part))
someTag(tags, part) == \E k \in 1..Len(tags) : includes(tags[k], part)

\* if (...) return 'surf'
rule_surf(name, map, tags) ==
    \/ startsWith(map, <<"s", "u", "r", "f", "_">>)
    \/ includes(name, <<"s", "u", "r", "f">>)
    \/ someTag(tags, <<"s", "u", "r", "f">>)

\* if (...) return 'bhop'
rule_bhop(name, map, tags) ==
    \/ startsWith(map, <<"b", "h", "o", "p", "_">>)
    \/ includes(name, <<"b", "h", "o", "p">>)
    \/ includes(name, <<"b", "u", "n", "n", "y", "h", "o", "p">>)
    \/ someTag(tags, <<"b", "h", "o", "p">>)
    \/ someTag(tags, <<"b", "u", "n", "n", "y", "h", "o", "p">>)

\* if (...) return 'ze'
rule_ze(name, map, tags) ==
    \/ startsWith(map, <<"z", "e", "_">>)
    \/ includes(name, <<"z", "o", "m", "b", "i", "e">>)
    \/ includes(name, <<"z", "e", " ">>)
    \/ someTag(tags, <<"z", "e">>)
    \/ someTag(tags, <<"z", "o", "m", "b", "i", "e">>)

\* if (...) return 'kz'
rule_kz(name, map, tags) ==
    \/ startsWith(map, <<"k", "z", "_">>)
    \/ includes(name, <<" ", "k", "z">>)
    \/ includes(name, <<"c", "l", "i", "m", "b">>)
    \/ someTag(tags, <<"k", "z">>)
    \/ someTag(tags, <<"c", "l", "i", "m", "b">>)

\* if (...) return 'dm'
rule_dm(name, map, tags) ==
    \/ includes(name, <<"d", "e", "a", "t", "h", "m", "a", "t", "c", "h">>)
    \/ includes(name, <<" ", "d", "m", " ">>)
    \/ someTag(tags, <<"d", "m">>)
    \/ someTag(tags, <<"d", "e", "a", "t", "h", "m", "a", "t", "c", "h">>)

\* if (...) return 'retake'
rule_retake(name, map, tags) ==
    \/ includes(name, <<"r", "e", "t", "a", "k", "e">>)
    \/ someTag(tags, <<"r", "e", "t", "a", "k", "e">>)

\* if (...) return 'awp'
rule_awp(name, map, tags) ==
    \/ includes(name, <<"a", "w", "p">>)
    \/ startsWith(map, <<"a", "w", "p", "_">>)
    \/ someTag(tags, <<"a", "w", "p">>)

\* if (...) return 'aim'
rule_aim(name, map, tags) ==
    \/ startsWith(map, <<"a", "i", "m", "_">>)
    \/ includes(name, <<"a", "i", "m">>)
    \/ includes(name, <<"1", "v", "1">>)
    \/ someTag(tags, <<"a", "i", "m">>)
    \/ someTag(tags, <<"1", "v", "1">>)

\* if (...) return 'jb'
rule_jb(name, map, tags) ==
    \/ startsWith(map, <<"j", "b", "_">>)
    \/ includes(name, <<"j", "a", "i", "l">>)
    \/ includes(name, <<"j", "a", "i", "l", "b", "r", "e", "a", "k">>)
    \/ someTag(tags, <<"j", "a", "i", "l">>)
    \/ someTag(tags, <<"j", "b">>)

\* if (...) return 'gungame'
rule_gungame(name, map, tags) ==
    \/ includes(name, <<"g", "u", "n", "g", "a", "m", "e">>)
    \/ includes(name, <<"a", "r", "m", "s", " ", "r", "a", "c", "e">>)
    \/ someTag(tags, <<"g", "u", "n", "g", "a", "m", "e">>)
    \/ someTag(tags, <<"g", "g">>)

\* if ((...) && (...)) return 'csurf'
rule_csurf(name, map, tags) ==
    /\ startsWith(map, <<"s", "u", "r", "f", "_">>) \/ includes(name, <<"s", "u", "r", "f">>)
    /\ includes(name, <<"c", "o", "m", "b", "a", "t">>) \/ includes(name, <<"d", "m">>)

\* if (...) return 'mg'
rule_mg(name, map, tags) ==
    \/ includes(name, <<"m", "i", "n", "i", "g", "a", "m", "e">>)
    \/ startsWith(map, <<"m", "g", "_">>)
    \/ someTag(tags, <<"m", "i", "n", "i", "g", "a", "m", "e">>)
    \/ someTag(tags, <<"m", "g">>)

\* if (...) return 'hns'
rule_hns(name, map, tags) ==
    \/ includes(name, <<"h", "i", "d", "e">>)
    \/ includes(name, <<"p", "r", "o", "p", " ", "h", "u", "n", "t">>)
    \/ someTag(tags, <<"h", "i", "d", "e">>)
    \/ someTag(tags, <<"h", "n", "s">>)

\* Variant: the aim rule tried before the awp rule.
detectGamemodeAimFirst(serverData) ==
    LET name == toLowerCase(serverData.name)
        map == toLowerCase(serverData.map)
        tags == Tags(serverData)
    IN  IF rule_surf(name, map, tags) THEN "surf"
        ELSE IF rule_bhop(name, map, tags) THEN "bhop"
        ELSE IF rule_ze(name, map, tags) THEN "ze"
        ELSE IF rule_kz(name, map, tags) THEN "kz"
        ELSE IF rule_dm(name, map, tags) THEN "dm"
        ELSE IF rule_retake(name, map, tags) THEN "retake"
        ELSE IF rule_aim(name, map, tags) THEN "aim"
        ELSE IF rule_awp(name, map, tags) THEN "awp"
        ELSE IF rule_jb(name, map, tags) THEN "jb"
        ELSE IF rule_gungame(name, map, tags) THEN "gungame"
        ELSE IF rule_csurf(name, map, tags) THEN "csurf"
        ELSE IF rule_mg(name, map, tags) THEN "mg"
        ELSE IF rule_hns(name, map, tags) THEN "hns"
        ELSE "public"

\* Variant: the combat-surf rule tried before the surf rule.
detectGamemodeCsurfFirst(serverData) ==
    LET name == toLowerCase(serverData.name)
        map == toLowerCase(serverData.map)
        tags == Tags(serverData)
    IN  IF rule_csurf(name, map, tags) THEN "csurf"
        ELSE IF rule_surf(name, map, tags) THEN "surf"
        ELSE IF rule_bhop(name, map, tags) THEN "bhop"
        ELSE IF rule_ze(name, map, tags) THEN "ze"
        ELSE IF rule_kz(name, map, tags) THEN "kz"
        ELSE IF rule_dm(name, map, tags) THEN "dm"
        ELSE IF rule_retake(name, map, tags) THEN "retake"
        ELSE IF rule_awp(name, map, tags) THEN "awp"
        ELSE IF rule_aim(name, map, tags) THEN "aim"
        ELSE IF rule_jb(name, map, tags) THEN "jb"
        ELSE IF rule_gungame(name, map, tags) THEN "gungame"
        ELSE IF rule_mg(name, map, tags) THEN "mg"
        ELSE IF rule_hns(name, map, tags) THEN "hns"
        ELSE "public"

\* The rules in the order of the function; 'public' when none applies.
detectGamemode(serverData) ==
    LET name == toLowerCase(serverData.name)
        map == toLowerCase(serverData.map)
        tags == Tags(serverData)
    IN  IF rule_surf(name, map, tags) THEN "surf"
        ELSE IF rule_bhop(name, map, tags) THEN "bhop"
        ELSE IF rule_ze(name, map, tags) THEN "ze"
        ELSE IF rule_kz(name, map, tags) THEN "kz"
        ELSE IF rule_dm(name, map, tags) THEN "dm"
        ELSE IF rule_retake(name, map, tags) THEN "retake"
        ELSE IF rule_awp(name, map, tags) THEN "awp"
        ELSE IF rule_aim(name, map, tags) THEN "aim"
        ELSE IF rule_jb(name, map, tags) THEN "jb"
        ELSE IF rule_gungame(name, map, tags) THEN "gungame"
        ELSE IF rule_csurf(name, map, tags) THEN "csurf"
        ELSE IF rule_mg(name, map, tags) THEN "mg"
        ELSE IF rule_hns(name, map, tags) THEN "hns"
        ELSE "public"

\* What Gamedig returns for a server that answers (serverData: the fields the
\* worker copies into the row and those detectGamemode reads), taken as one
\* value for the runs of the workers.
CasualPub ==
    [name |-> <<"c", "a", "s", "u", "a", "l", " ", "p", "u", "b">>,
     map |-> <<"d", "e", "_", "d", "u", "s", "t", "2">>, tags |-> NoTags]

ProbeData == {CasualPub}

----------------------------------------------------------------------------
(* The table 'servers'. *)

NoRecord == [status |-> "unknown"]

\* Column default of seen_count for a row the upsert inserts.
SeenCountDefault == 0

\* parseInt(portStr, 10) for the port parts used here; NaN is 0 (both falsy).
ParsePort(parts) ==
    IF Len(parts) < 2 THEN 0
    ELSE IF parts[2] = "27015" THEN 27015 ELSE 0

\* !host || !port
InvalidAddr(parts) == parts[1] = "" \/ ParsePort(parts) = 0

\* The row object built after a successful probe.  seen_count: undefined is
\* dropped when the request body is serialised, so the object carries none.
ServerRecord(addr, d, t) ==
    [addr |-> addr, data |-> d, gamemode |-> detectGamemode(d), status |-> "online",
     offline_since |-> Null, missed_count |-> 0, updated_at |-> t]

\* Variant: an upsert whose row leaves offline_since out: the stamp of an offline row
\* survives the Hit.
UpsertRowKeepsStamp(old, rec) ==
    IF old = NoRecord
    THEN [status |-> rec.status, offline_since |-> rec.offline_since,
          seen_count |-> SeenCountDefault, missed_count |-> rec.missed_count,
          updated_at |-> rec.updated_at, data |-> rec.data, gamemode |-> rec.gamemode]
    ELSE [old EXCEPT !.status = rec.status, !.missed_count = rec.missed_count,
                     !.updated_at = rec.updated_at, !.data = rec.data,
                     !.gamemode = rec.gamemode]

\* Variant: an upsert whose row carries seen_count: 0 instead of leaving the
\* column out, so that a conflict resets the count.
UpsertRowResetsSeen(old, rec) ==
    [status |-> rec.status, offline_since |-> rec.offline_since,
     seen_count |-> 0, missed_count |-> rec.missed_count,
     updated_at |-> rec.updated_at, data |-> rec.data, gamemode |-> rec.gamemode]

\* upsert(row, {onConflict: 'addr', ignoreDuplicates: false}): insert, or
\* overwrite the columns the row carries.
UpsertRow(old, rec) ==
    IF old = NoRecord
    THEN [status |-> rec.status, offline_since |-> rec.offline_since,
          seen_count |-> SeenCountDefault, missed_count |-> rec.missed_count,
          updated_at |-> rec.updated_at, data |-> rec.data, gamemode |-> rec.gamemode]
    ELSE [old EXCEPT !.status = rec.status, !.offline_since = rec.offline_since,
                     !.missed_count = rec.missed_count,
                     !.updated_at = rec.updated_at, !.data = rec.data,
                     !.gamemode = rec.gamemode]

\* increment_server_seen_count: UPDATE servers SET seen_count = seen_count + 1
\* WHERE addr = addr_param.
IncrementSeen(old) ==
    IF old = NoRecord THEN old ELSE [old EXCEPT !.seen_count = @ + 1]

\* Variant: the threshold compared with > instead of >=.
MarksOfflineLate(newMissedCount, status) ==
    newMissedCount > serverOfflineThreshold /\ status # "offline"

\* Variant: the mark repeated on a row that is offline already.
MarksOfflineAgain(newMissedCount, status) ==
    newMissedCount >= serverOfflineThreshold

\* Mark as offline if missed too many times.
MarksOffline(newMissedCount, status) ==
    newMissedCount >= serverOfflineThreshold /\ status # "offline"

\* updateData of the failure branch, from the row that was read.  status and
\* offline_since are set only when the row is marked offline.
UpdateData(existing, t) ==
    LET newMissedCount == existing.missed_count + 1
    IN  IF MarksOffline(newMissedCount, existing.status)
        THEN [missed_count |-> newMissedCount, updated_at |-> t, seen_count |-> 0,
              status |-> "offline", offline_since |-> t]
        ELSE [missed_count |-> newMissedCount, updated_at |-> t, seen_count |-> 0]

\* Variant: the update written as an upsert, which inserts the columns of
\* updateData when the address has no row.
UpdateRowUpserts(old, upd) ==
    IF old = NoRecord
    THEN [status |-> "online", offline_since |-> Null, seen_count |-> upd.seen_count,
          missed_count |-> upd.missed_count, updated_at |-> upd.updated_at,
          data |-> "none", gamemode |-> "none"]
    ELSE [f \in DOMAIN old |-> IF f \in DOMAIN upd THEN upd[f] ELSE old[f]]

\* update(updateData).eq('addr', addr): sets the columns updateData carries
\* on the row of that address, if there is one.
UpdateRow(old, upd) ==
    IF old = NoRecord THEN old
    ELSE [f \in DOMAIN old |-> IF f \in DOMAIN upd THEN upd[f] ELSE old[f]]

\* Variant: the filter written with lte instead of lt.
ExpiredAtCutoff(row, cutoffDate) ==
    /\ row.status = "offline"
    /\ row.offline_since # Null
    /\ row.offline_since <= cutoffDate

\* delete().eq('status', 'offline').lt('offline_since', cutoffDate)
Expired(row, cutoffDate) ==
    /\ row # NoRecord
    /\ row.status = "offline"
    /\ row.offline_since # Null
    /\ row.offline_since < cutoffDate

----------------------------------------------------------------------------
(* BullMQ: what becomes of a job whose handler has thrown. *)

\* Variant: a failed job is put back whatever its attempts.
WaitAfterFailureAlways(wait, job, attempts) ==
    Append(wait, [job EXCEPT !.attemptsMade = @ + 1])

\* A failed job waits again while it has attempts left.
WaitAfterFailure(wait, job, attempts) ==
    IF job.attemptsMade + 1 < attempts
    THEN Append(wait, [job EXCEPT !.attemptsMade = @ + 1])
    ELSE wait

----------------------------------------------------------------------------
(* gracefulShutdown, the handler of SIGTERM and SIGINT.  close() of a BullMQ  *)
(* worker stops it taking jobs at once and resolves when the jobs it is      *)
(* processing have finished.                                                 *)

NoRuns == [master |-> FALSE, cleanup |-> FALSE, server |-> {}]

\* No signal received: pc is "running".  atSignal: the runs in flight when the
\* signal was received (history).
Running == [pc |-> "running", atSignal |-> NoRuns]

\* The workers and schedulers have not been closed.
Open == shutdown.pc = "running"

----------------------------------------------------------------------------
(* serverWorker: one handler run per slot. *)

None == [none |-> TRUE]

IdleWorker ==
    [pc |-> "idle", addr |-> <<>>, attemptsMade |-> 0, rec |-> None, error |-> FALSE,
     upd |-> None, before |-> None, clean |-> TRUE]

\* A run is in flight from the moment it takes its job until it returns.
InFlight(w) == worker[w].pc # "idle"

InFlightOn(a) == \E w \in Workers : InFlight(w) /\ worker[w].addr = a

\* The slots are interchangeable: a job goes to the first free one.
FirstFree(w) == \A v \in Workers : v < w => worker[v].pc # "idle"

\* What is recorded of a run when its handler returns: its address, whether
\* its probe was answered, the value returned ("record" for serverRecord), the
\* row before its first store request (None if it made none), and whether
\* every store request it made succeeded.
Returned(run, ret) ==
    [addr |-> run.addr, answered |-> run.rec # None, ret |-> ret,
     before |-> run.before, clean |-> run.clean]

\* opts.attempts of the jobs a poll queues.
ServerJobAttempts == 2

\* Variant: the error of the probe is thrown again at the end of the catch block.
ThrowsOnMiss(run) == run.rec = None

\* Whether a run ends by throwing.  The handler catches the error of the
\* probe and of the upsert (catch (error)) and the errors of the failure
\* branch (catch (dbError)), and returns null.
Throws(run) == FALSE

\* The waiting list once BullMQ has settled the job of a run that has ended.
Settled(queue, run) ==
    IF Throws(run)
    THEN WaitAfterFailure(queue, [addr |-> run.addr, attemptsMade |-> run.attemptsMade],
                          ServerJobAttempts)
    ELSE queue

\* The worker takes the oldest waiting job: const { addr } = job.data, split,
\* parseInt, and return null for an address without host or port.
Dequeue(w) ==
    /\ Open
    /\ worker[w].pc = "idle"
    /\ FirstFree(w)
    /\ serverQueue # <<>>
    /\ LET job == Head(serverQueue)
       IN  IF InvalidAddr(job.addr)
           THEN /\ worker' = worker
                /\ lastRun' = Returned([IdleWorker EXCEPT !.addr = job.addr], "null")
           ELSE /\ worker' = [worker EXCEPT ![w] =
                                [IdleWorker EXCEPT !.pc = "query", !.addr = job.addr,
                                                   !.attemptsMade = job.attemptsMade]]
                /\ lastRun' = None
    /\ serverQueue' = Tail(serverQueue)
    /\ UNCHANGED <<shutdown, apiVars, now, db, missRun, masterVars, cleanupVars>>

\* Gamedig.query resolves: the row object is built, updated_at: new Date().
ProbeOk(w, d) ==
    /\ worker[w].pc = "query"
    /\ worker' = [worker EXCEPT ![w].pc = "upsert",
                                ![w].rec = ServerRecord(worker[w].addr, d, now)]
    /\ UNCHANGED <<shutdown, apiVars, now, registryVars, serverQueue, masterVars, cleanupVars>>

\* Gamedig.query rejects (timeout, refused, malformed): the catch block runs.
ProbeFail(w) ==
    /\ worker[w].pc = "query"
    /\ worker' = [worker EXCEPT ![w].pc = "select"]
    /\ UNCHANGED <<shutdown, apiVars, now, registryVars, serverQueue, masterVars, cleanupVars>>

\* const { error } = await supabase.from('servers').upsert(...)
Upsert(w, ok) ==
    /\ worker[w].pc = "upsert"
    /\ LET a == worker[w].addr
       IN  /\ db' = IF ok THEN [db EXCEPT ![a] = UpsertRow(db[a], worker[w].rec)] ELSE db
           /\ missRun' = IF ok THEN [missRun EXCEPT ![a] = 0] ELSE missRun
           /\ worker' = [worker EXCEPT ![w].pc = "rpc", ![w].error = ~ok,
                                       ![w].before = db[a], ![w].clean = ok]
    /\ UNCHANGED <<shutdown, apiVars, now, lastRun, serverQueue, masterVars, cleanupVars>>

\* await supabase.rpc('increment_server_seen_count', ...), its result unread;
\* then if (error) throw error, which lands in the catch block of the probe;
\* else return serverRecord.
Rpc(w, ok) ==
    /\ worker[w].pc = "rpc"
    /\ LET a == worker[w].addr
           run == [worker[w] EXCEPT !.clean = @ /\ ok]
       IN  /\ db' = IF ok THEN [db EXCEPT ![a] = IncrementSeen(db[a])] ELSE db
           /\ IF worker[w].error
              THEN /\ worker' = [worker EXCEPT ![w] = [run EXCEPT !.pc = "select"]]
                   /\ lastRun' = lastRun
                   /\ serverQueue' = serverQueue
              ELSE /\ worker' = [worker EXCEPT ![w] = IdleWorker]
                   /\ lastRun' = Returned(run, "record")
                   /\ serverQueue' = Settled(serverQueue, run)
    /\ UNCHANGED <<shutdown, apiVars, now, missRun, masterVars, cleanupVars>>

\* select('missed_count, status').eq('addr', addr).single(): data is null when
\* there is no row or the request fails.  With a row, updateData is built;
\* without one the handler returns null.
Select(w, ok) ==
    /\ worker[w].pc = "select"
    /\ LET a == worker[w].addr
           existingServer == IF ok THEN db[a] ELSE NoRecord
           run == [worker[w] EXCEPT
                      !.before = IF @ = None THEN db[a] ELSE @,
                      !.clean = @ /\ ok]
       IN  IF existingServer # NoRecord
           THEN /\ worker' = [worker EXCEPT ![w] =
                                [run EXCEPT !.pc = "update",
                                            !.upd = UpdateData(existingServer, now)]]
                /\ lastRun' = lastRun
                /\ serverQueue' = serverQueue
           ELSE /\ worker' = [worker EXCEPT ![w] = IdleWorker]
                /\ lastRun' = Returned(run, "null")
                /\ serverQueue' = Settled(serverQueue, run)
    /\ UNCHANGED <<shutdown, apiVars, now, db, missRun, masterVars, cleanupVars>>

\* await supabase.from('servers').update(updateData).eq('addr', addr); an error
\* is logged.  The handler returns null.
Update(w, ok) ==
    /\ worker[w].pc = "update"
    /\ LET a == worker[w].addr
           applied == ok /\ db[a] # NoRecord
           run == [worker[w] EXCEPT !.clean = @ /\ ok]
       IN  /\ db' = IF ok THEN [db EXCEPT ![a] = UpdateRow(db[a], worker[w].upd)] ELSE db
           /\ missRun' = IF applied THEN [missRun EXCEPT ![a] = @ + 1] ELSE missRun
           /\ lastRun' = Returned(run, "null")
           /\ serverQueue' = Settled(serverQueue, run)
    /\ worker' = [worker EXCEPT ![w] = IdleWorker]
    /\ UNCHANGED <<shutdown, apiVars, now, masterVars, cleanupVars>>

----------------------------------------------------------------------------
(* The queue 'master-server-fetch' and masterWorker (concurrency: 1). *)

InitialPoll == [jobId |-> "master-fetch-initial", repeat |-> FALSE, attemptsMade |-> 0]
ScheduledPoll == [jobId |-> "master-fetch-schedule", repeat |-> TRUE, attemptsMade |-> 0]

\* Neither poll job sets opts.attempts, so BullMQ runs each once.
MasterJobAttempts == 1

IdleMaster == [pc |-> "idle", job |-> None, got |-> FALSE, servers |-> <<>>, i |-> 0]

\* The delay of the scheduled instance of the repeatable job runs out
\* (repeat.every): the job moves to the waiting list.
MasterTimerFires ==
    /\ Open
    /\ masterDelayed
    /\ masterDelayed' = FALSE
    /\ masterWait' = Append(masterWait, ScheduledPoll)
    /\ UNCHANGED <<shutdown, apiVars, now, registryVars, workerVars, master, polls, lastMasterUpdate,
                   cleanupVars>>

\* The single slot of masterWorker takes the oldest waiting job.  Taking an
\* instance of the repeatable job schedules its next instance.
MasterStart ==
    /\ Open
    /\ master.pc = "idle"
    /\ masterWait # <<>>
    /\ polls < MaxPolls
    /\ LET job == Head(masterWait)
       IN  /\ master' = [IdleMaster EXCEPT !.pc = "query", !.job = job]
           /\ masterDelayed' = (masterDelayed \/ job.repeat)
    /\ masterWait' = Tail(masterWait)
    /\ polls' = polls + 1
    /\ UNCHANGED <<shutdown, apiVars, now, registryVars, workerVars, lastMasterUpdate, cleanupVars>>

\* await master.getServers(...) resolves with the list of addresses.
MasterQueryOk(servers) ==
    /\ master.pc = "query"
    /\ master' = [master EXCEPT !.pc = IF Len(servers) > 0 THEN "enqueue" ELSE "set",
                                !.got = TRUE, !.servers = servers, !.i = 0]
    /\ UNCHANGED <<shutdown, apiVars, now, registryVars, workerVars, masterWait, masterDelayed, polls,
                   lastMasterUpdate, cleanupVars>>

\* await master.getServers(...) rejects: logged and rethrown.
MasterQueryFail ==
    /\ master.pc = "query"
    /\ master' = [master EXCEPT !.pc = "failed"]
    /\ UNCHANGED <<shutdown, apiVars, now, registryVars, workerVars, masterWait, masterDelayed, polls,
                   lastMasterUpdate, cleanupVars>>

Min(x, y) == IF x < y THEN x ELSE y

\* Variant: the slice taken one entry too long.
BatchOverlapping(servers, i) == SubSeq(servers, i + 1, Min(i + BATCH_SIZE + 1, Len(servers)))

\* servers.slice(i, i + BATCH_SIZE)
Batch(servers, i) == SubSeq(servers, i + 1, Min(i + BATCH_SIZE, Len(servers)))

\* batch.map(addr => ({name: 'query-server', data: {addr}, opts: {attempts: 2, ...}}))
Jobs(batch) == [k \in 1..Len(batch) |-> [addr |-> batch[k], attemptsMade |-> 0]]

\* Variant: a rejected addBulk is swallowed and the run goes on to the set.
MasterAddBulkSwallows(ok) ==
    /\ master.pc = "enqueue"
    /\ LET i == master.i
           jobs == Jobs(Batch(master.servers, i))
       IN  IF ok
           THEN /\ serverQueue' = serverQueue \o jobs
                /\ master' = [master EXCEPT !.i = i + BATCH_SIZE,
                                 !.pc = IF i + BATCH_SIZE < Len(master.servers)
                                        THEN "enqueue" ELSE "set"]
           ELSE /\ serverQueue' = serverQueue
                /\ master' = [master EXCEPT !.pc = "set"]
    /\ UNCHANGED <<shutdown, apiVars, now, registryVars, worker, masterWait, masterDelayed, polls,
                   lastMasterUpdate, cleanupVars>>

\* One turn of the loop: await serverQueryQueue.addBulk(jobs), i += BATCH_SIZE.
MasterAddBulk(ok) ==
    /\ master.pc = "enqueue"
    /\ LET i == master.i
           jobs == Jobs(Batch(master.servers, i))
       IN  IF ok
           THEN /\ serverQueue' = serverQueue \o jobs
                /\ master' = [master EXCEPT !.i = i + BATCH_SIZE,
                                 !.pc = IF i + BATCH_SIZE < Len(master.servers)
                                        THEN "enqueue" ELSE "set"]
           ELSE /\ serverQueue' = serverQueue
                /\ master' = [master EXCEPT !.pc = "failed"]
    /\ UNCHANGED <<shutdown, apiVars, now, registryVars, worker, masterWait, masterDelayed, polls,
                   lastMasterUpdate, cleanupVars>>

\* await redisClient.set('last_master_update', new Date().toISOString())
MasterSet(ok) ==
    /\ master.pc = "set"
    /\ IF ok
       THEN /\ lastMasterUpdate' = now
            /\ master' = [master EXCEPT !.pc = "done"]
       ELSE /\ lastMasterUpdate' = lastMasterUpdate
            /\ master' = [master EXCEPT !.pc = "failed"]
    /\ UNCHANGED <<shutdown, apiVars, now, registryVars, workerVars, masterWait, masterDelayed, polls,
                   cleanupVars>>

\* BullMQ finishes the job: completed (and removed), or failed.
MasterFinish ==
    /\ master.pc \in {"done", "failed"}
    /\ masterWait' = IF master.pc = "failed"
                     THEN WaitAfterFailure(masterWait, master.job, MasterJobAttempts)
                     ELSE masterWait
    /\ master' = IdleMaster
    /\ UNCHANGED <<shutdown, apiVars, now, registryVars, workerVars, masterDelayed, polls,
                   lastMasterUpdate, cleanupVars>>

----------------------------------------------------------------------------
(* The queue 'offline-cleanup' and cleanupWorker (concurrency: 1). *)

InitialCleanup == [jobId |-> "offline-cleanup-initial", repeat |-> FALSE]
ScheduledCleanup == [jobId |-> "offline-cleanup-schedule", repeat |-> TRUE]

IdleCleanup == [pc |-> "idle", cutoffDate |-> 0]

\* The cron pattern '0 0 * * *' comes due.
CleanupTimerFires ==
    /\ Open
    /\ cleanupDelayed
    /\ cleanupDelayed' = FALSE
    /\ cleanupWait' = Append(cleanupWait, ScheduledCleanup)
    /\ UNCHANGED <<shutdown, apiVars, now, registryVars, workerVars, masterVars, cleanup, lastSweep>>

\* cutoffDate = new Date(); cutoffDate.setDate(cutoffDate.getDate() - days)
CutoffDate(t) == t - serverDeleteThresholdDays

CleanupStart ==
    /\ Open
    /\ cleanup.pc = "idle"
    /\ cleanupWait # <<>>
    /\ cleanup' = [pc |-> "delete", cutoffDate |-> CutoffDate(now)]
    /\ cleanupDelayed' = (cleanupDelayed \/ Head(cleanupWait).repeat)
    /\ cleanupWait' = Tail(cleanupWait)
    /\ lastSweep' = None
    /\ UNCHANGED <<shutdown, apiVars, now, registryVars, workerVars, masterVars>>

\* The rows the delete request removes.
Swept(rows, cutoffDate) == {a \in Addrs : Expired(rows[a], cutoffDate)}

\* await supabase.from('servers').delete({count: 'exact'})...: one request;
\* return {deleted: count}, or throw the error.  Neither cleanup job sets
\* opts.attempts, so a failed one is not run again.
CleanupDelete(ok) ==
    /\ cleanup.pc = "delete"
    /\ IF ok
       THEN LET gone == Swept(db, cleanup.cutoffDate)
            IN  /\ db' = [a \in Addrs |-> IF a \in gone THEN NoRecord ELSE db[a]]
                /\ lastSweep' = [cutoffDate |-> cleanup.cutoffDate,
                                 deleted |-> Cardinality(gone)]
       ELSE /\ db' = db
            /\ lastSweep' = lastSweep
    /\ cleanup' = IdleCleanup
    /\ UNCHANGED <<shutdown, apiVars, now, missRun, lastRun, workerVars, masterVars, cleanupWait,
                   cleanupDelayed>>

----------------------------------------------------------------------------
(* The steps of gracefulShutdown. *)

\* The handler runs of the three workers that are in flight.
RunsInFlight ==
    [master |-> master.pc # "idle", cleanup |-> cleanup.pc # "idle",
     server |-> {w \in Workers : InFlight(w)}]

\* Variant: the jobs of serverWorker are not waited for.
DrainedButProbes == master.pc = "idle" /\ cleanup.pc = "idle"

\* Every close() has settled: no worker is processing a job.
Drained == RunsInFlight = NoRuns

\* SIGTERM or SIGINT: gracefulShutdown calls close() of the three workers and
\* the two schedulers, and awaits them all.
Signal ==
    /\ shutdown.pc = "running"
    /\ shutdown' = [pc |-> "closing", atSignal |-> RunsInFlight]
    /\ UNCHANGED <<apiVars, now, registryVars, workerVars, masterVars, cleanupVars>>

\* await Promise.allSettled([...close()]) resolves; connection.quit() and
\* redisClient.quit() are called and awaited.
Closed ==
    /\ shutdown.pc = "closing"
    /\ Drained
    /\ shutdown' = [shutdown EXCEPT !.pc = "quitting"]
    /\ UNCHANGED <<apiVars, now, registryVars, workerVars, masterVars, cleanupVars>>

\* process.exit(0)
Exit ==
    /\ shutdown.pc = "quitting"
    /\ shutdown' = [shutdown EXCEPT !.pc = "exited"]
    /\ UNCHANGED <<apiVars, now, registryVars, workerVars, masterVars, cleanupVars>>

ShutdownStep ==
    \/ Signal
    \/ Closed
    \/ Exit

----------------------------------------------------------------------------
(* The handler of GET /api/servers, as far as it pages: the parameters page  *)
(* and limit of the query string, and the range of rows it asks for.         *)

\* A parameter of req.query: a string, or not given.
Given(str) == [given |-> TRUE, value |-> str]
Absent == [given |-> FALSE, value |-> <<>>]

\* const { page = '1', limit = '50', ... } = req.query
Default(param, str) == IF param.given THEN param.value ELSE str

Digits == <<"0", "1", "2", "3", "4", "5", "6", "7", "8", "9">>
IsDigit(c) == \E d \in 1..10 : Digits[d] = c
DigitValue(c) == (CHOOSE d \in 1..10 : Digits[d] = c) - 1

RECURSIVE trimStart(_)
trimStart(str) ==
    IF str # <<>> /\ Head(str) = " " THEN trimStart(Tail(str)) ELSE str

\* The number the leading decimal digits of str write, after acc.
RECURSIVE ParseDigits(_, _)
ParseDigits(str, acc) ==
    IF str = <<>> \/ ~IsDigit(Head(str))
    THEN acc
    ELSE ParseDigits(Tail(str), 10 * acc + DigitValue(Head(str)))

NaN == [nan |-> TRUE, n |-> 0]

\* parseInt(str) without a radix, for strings that do not begin with 0x:
\* leading blanks skipped, a sign, then the decimal digits up to the first
\* other character; NaN when there is no digit.
parseInt(str) ==
    LET s == trimStart(str)
        signed == s # <<>> /\ Head(s) \in {"-", "+"}
        body == IF signed THEN Tail(s) ELSE s
    IN  IF body = <<>> \/ ~IsDigit(Head(body))
        THEN NaN
        ELSE [nan |-> FALSE,
              n |-> IF signed /\ Head(s) = "-"
                    THEN 0 - ParseDigits(body, 0) ELSE ParseDigits(body, 0)]

\* x || d, for x a number or NaN: NaN and 0 are falsy.
OrElse(x, d) == IF x.nan \/ x.n = 0 THEN d ELSE x.n

Max(x, y) == IF x > y THEN x ELSE y

IdleRequest ==
    [pc |-> "idle", page |-> <<>>, limit |-> <<>>, pageInt |-> 0, limitInt |-> 0,
     start |-> 0, end |-> 0]

\* A request arrives; the handler awaits redis.get(cacheKey).
Receive(page, limit) ==
    /\ request.pc = "idle"
    /\ request' = [IdleRequest EXCEPT !.pc = "cache",
                                     !.page = Default(page, <<"1">>),
                                     !.limit = Default(limit, <<"5", "0">>)]
    /\ UNCHANGED <<shutdown, now, registryVars, workerVars, masterVars, cleanupVars>>

\* The cache holds the response: it is sent as it is.
CacheHit ==
    /\ request.pc = "cache"
    /\ request' = IdleRequest
    /\ UNCHANGED <<shutdown, now, registryVars, workerVars, masterVars, cleanupVars>>

\* Cache miss: the query is built, up to query.range(start, start + limitInt - 1).
Paginate ==
    /\ request.pc = "cache"
    /\ LET pageInt == Max(OrElse(parseInt(request.page), 1), 1)
           limitInt == Min(OrElse(parseInt(request.limit), 50), 100)
           start == (pageInt - 1) * limitInt
       IN  request' = [request EXCEPT !.pc = "query", !.pageInt = pageInt,
                                     !.limitInt = limitInt, !.start = start,
                                     !.end = start + limitInt - 1]
    /\ UNCHANGED <<shutdown, now, registryVars, workerVars, masterVars, cleanupVars>>

\* await query settles: the response with meta.page and meta.limit, or 500.
Respond ==
    /\ request.pc = "query"
    /\ request' = IdleRequest
    /\ UNCHANGED <<shutdown, now, registryVars, workerVars, masterVars, cleanupVars>>

----------------------------------------------------------------------------
(* The clock, and the specification. *)

\* A handler run lasts seconds (serverQueryTimeout is 5000 ms) and the instants
\* are days apart, so the clock moves between runs, not within one.
Tick(t) ==
    /\ t > now
    /\ \A w \in Workers : worker[w].pc = "idle"
    /\ master.pc = "idle"
    /\ cleanup.pc = "idle"
    /\ now' = t
    /\ UNCHANGED <<shutdown, apiVars, registryVars, workerVars, masterVars, cleanupVars>>

\* The state once initWorker has returned: both queues obliterated, the two
\* repeatable jobs scheduled, the two initial jobs waiting, the table empty.
Init ==
    /\ now = 0
    /\ db = [a \in Addrs |-> NoRecord]
    /\ missRun = [a \in Addrs |-> 0]
    /\ lastRun = None
    /\ serverQueue = <<>>
    /\ worker = [w \in Workers |-> IdleWorker]
    /\ masterWait = <<InitialPoll>>
    /\ masterDelayed = TRUE
    /\ master = IdleMaster
    /\ polls = 0
    /\ lastMasterUpdate = Null
    /\ cleanupWait = <<InitialCleanup>>
    /\ cleanupDelayed = TRUE
    /\ cleanup = IdleCleanup
    /\ lastSweep = None
    /\ shutdown = Running
    /\ request = IdleRequest

WorkerStep(w) ==
    \/ Dequeue(w)
    \/ \E d \in ProbeData : ProbeOk(w, d)
    \/ ProbeFail(w)
    \/ \E ok \in BOOLEAN : Upsert(w, ok)
    \/ \E ok \in BOOLEAN : Rpc(w, ok)
    \/ \E ok \in BOOLEAN : Select(w, ok)
    \/ \E ok \in BOOLEAN : Update(w, ok)

MasterStep ==
    \/ MasterTimerFires
    \/ MasterStart
    \/ \E servers \in Discoveries : MasterQueryOk(servers)
    \/ MasterQueryFail
    \/ \E ok \in BOOLEAN : MasterAddBulk(ok)
    \/ \E ok \in BOOLEAN : MasterSet(ok)
    \/ MasterFinish

CleanupStep ==
    \/ CleanupTimerFires
    \/ CleanupStart
    \/ \E ok \in BOOLEAN : CleanupDelete(ok)

Next ==
    \/ \E w \in Workers : WorkerStep(w)
    \/ MasterStep
    \/ CleanupStep
    \/ \E t \in Instants : Tick(t)

\* The whole worker process.
Spec == Init /\ [][Next]_vars

----------------------------------------------------------------------------
(* The discovery side alone: masterWorker, its queue and the clock.  No other *)
(* handler reads or writes what a poll reads (its own job and the clock), so *)
(* the polls of Spec are the polls of SpecMaster.                            *)

MasterNext ==
    \/ MasterStep
    \/ \E t \in Instants : Tick(t)

SpecMaster == Init /\ [][MasterNext]_vars

----------------------------------------------------------------------------
(* The probe side alone: serverWorker, cleanupWorker and the clock, started  *)
(* with jobs that polls have queued.  A poll only appends to 'server-query'  *)
(* and never touches the table, so its steps commute with the steps taken    *)
(* here: what Spec does to the table, it does here.                          *)

Repeat(a, n) == [k \in 1..n |-> a]

\* The addresses queued: one server listed by poll after poll, or two servers
\* and an entry without a port.
Workloads == {Repeat(A1, MaxJobs), <<A1, A2, NoPort, A1>>}

InitProbes ==
    /\ now = 0
    /\ db = [a \in Addrs |-> NoRecord]
    /\ missRun = [a \in Addrs |-> 0]
    /\ lastRun = None
    /\ serverQueue \in {Jobs(s) : s \in Workloads}
    /\ worker = [w \in Workers |-> IdleWorker]
    /\ masterWait = <<>>
    /\ masterDelayed = TRUE
    /\ master = IdleMaster
    /\ polls = MaxPolls
    /\ lastMasterUpdate = now
    /\ cleanupWait = <<InitialCleanup>>
    /\ cleanupDelayed = TRUE
    /\ cleanup = IdleCleanup
    /\ lastSweep = None
    /\ shutdown = Running
    /\ request = IdleRequest

\* Runs for different addresses overlap freely.  A job whose address has a run
\* in flight is taken only if it is among the last `race` jobs of the queue.
MayTake(race) ==
    /\ serverQueue # <<>>
    /\ \/ InvalidAddr(Head(serverQueue).addr)
       \/ ~InFlightOn(Head(serverQueue).addr)
       \/ Len(serverQueue) <= race

ProbeStep(w, race) ==
    \/ (MayTake(race) /\ Dequeue(w))
    \/ \E d \in ProbeData : ProbeOk(w, d)
    \/ ProbeFail(w)
    \/ \E ok \in BOOLEAN : Upsert(w, ok)
    \/ \E ok \in BOOLEAN : Rpc(w, ok)
    \/ \E ok \in BOOLEAN : Select(w, ok)
    \/ \E ok \in BOOLEAN : Update(w, ok)

ProbesNext ==
    \/ \E w \in Workers : ProbeStep(w, MaxRace)
    \/ CleanupStep
    \/ \E t \in Instants : Tick(t)

SpecProbes == InitProbes /\ [][ProbesNext]_vars

\* The same with the runs for one address strictly one at a time.
SerialNext ==
    \/ \E w \in Workers : ProbeStep(w, 0)
    \/ CleanupStep
    \/ \E t \in Instants : Tick(t)

SpecSerial == InitProbes /\ [][SerialNext]_vars

----------------------------------------------------------------------------
(* Properties of the registry under concurrent reconciliations (SpecProbes). *)

HasRecord(a) == db[a] # NoRecord

\* C1: whenever no reconciliation for an address is in flight, its record does
\* not have seen_count > 0 and missed_count > 0 at once, whatever probe
\* outcomes arrived and however the runs for the address interleaved.
C1_CountersExclusive ==
    \A a \in Addrs :
        (HasRecord(a) /\ ~InFlightOn(a)) =>
            ~(db[a].seen_count > 0 /\ db[a].missed_count > 0)

\* C2: under any interleaving of reconciliations and sweeps, a record has
\* status offline exactly when its offline_since is not null.
C2_OfflineIffStamped ==
    \A a \in Addrs :
        HasRecord(a) => (db[a].status = "offline" <=> db[a].offline_since # Null)

\* A record is offline and stamped while a second run for its address is in
\* flight next to the one that has just returned.
C2_Witness ==
    \E a \in Addrs :
        /\ HasRecord(a)
        /\ db[a].status = "offline"
        /\ db[a].offline_since # Null
        /\ InFlightOn(a)
        /\ lastRun # None
        /\ lastRun.addr = a

\* C6: a Miss reconciliation for an address without a record (never stored,
\* or reaped) creates none, however the runs and sweeps interleave: a record
\* appears only by the upsert of a run whose probe succeeded.
C6_MissCreatesNothing ==
    [][\A a \in Addrs :
          (~HasRecord(a) /\ db'[a] # NoRecord) =>
              \E w \in Workers :
                  /\ worker[w].pc = "upsert"
                  /\ worker[w].addr = a
                  /\ worker'[w].pc = "rpc"]_vars

\* A Miss for an address whose record a sweep has reaped returned null, and
\* the address still has no record.
C6_Witness ==
    /\ lastRun # None
    /\ lastRun.ret = "null"
    /\ lastRun.before = NoRecord
    /\ lastRun.clean
    /\ ~HasRecord(lastRun.addr)
    /\ missRun[lastRun.addr] >= serverOfflineThreshold
    /\ lastSweep # None
    /\ lastSweep.deleted >= 1

----------------------------------------------------------------------------
(* Properties of reconciliations applied one at a time per address          *)
(* (SpecSerial).                                                            *)

\* The run that returned last was for address a and went through the failure
\* branch (a failed probe, or a store error after the probe).
MissReturned(a) ==
    /\ lastRun # None
    /\ lastRun.addr = a
    /\ lastRun.ret = "null"
    /\ lastRun.before # None
    /\ ~InFlightOn(a)

\* The run that returned last was for address a and returned serverRecord.
HitReturned(a) ==
    /\ lastRun # None
    /\ lastRun.addr = a
    /\ lastRun.ret = "record"
    /\ ~InFlightOn(a)

\* C3: a record a Hit has made online stays online through the first
\* serverOfflineThreshold - 1 consecutive Misses and is offline exactly from
\* the serverOfflineThreshold-th on; a Hit in between makes it online with
\* missed_count 0.  missRun counts the Misses applied since the last Hit.
C3_OfflineAtThreshold ==
    \A a \in Addrs :
        HasRecord(a) =>
            /\ db[a].missed_count = missRun[a]
            /\ db[a].status = "online" <=> missRun[a] < serverOfflineThreshold
            /\ db[a].status \in {"online", "offline"}

\* The serverOfflineThreshold-th consecutive Miss has just returned: it read
\* an online row with threshold - 1 misses and left it offline.
C3_Witness ==
    \E a \in Addrs :
        /\ MissReturned(a)
        /\ lastRun.before.status = "online"
        /\ lastRun.before.missed_count = serverOfflineThreshold - 1
        /\ HasRecord(a)
        /\ db[a].status = "offline"
        /\ missRun[a] = serverOfflineThreshold

\* C4: a further Miss on an offline record leaves status and offline_since
\* (and the probe data) as they were; only the counters and updated_at move.
C4_OfflineSinceKept ==
    \A a \in Addrs :
        (MissReturned(a) /\ lastRun.before.status = "offline" /\ HasRecord(a)) =>
            /\ db[a].status = "offline"
            /\ db[a].offline_since = lastRun.before.offline_since
            /\ db[a].data = lastRun.before.data

\* A Miss was applied to a record that had gone offline on an earlier day.
C4_Witness ==
    \E a \in Addrs :
        /\ MissReturned(a)
        /\ lastRun.before.status = "offline"
        /\ HasRecord(a)
        /\ db[a].missed_count = lastRun.before.missed_count + 1
        /\ db[a].offline_since < now

\* C5: a Hit on an offline record leaves it online with offline_since null,
\* missed_count 0 and seen_count exactly 1.
C5_HitRevives ==
    \A a \in Addrs :
        (HitReturned(a) /\ lastRun.before.status = "offline") =>
            /\ HasRecord(a)
            /\ db[a].status = "online"
            /\ db[a].offline_since = Null
            /\ db[a].missed_count = 0
            /\ db[a].seen_count = 1

\* C8: a Hit applied to the record the same Hit has left (online, no misses,
\* the same probe data) changes nothing but seen_count and updated_at, and
\* those do not decrease.
C8_HitTwice ==
    \A a \in Addrs :
        (/\ HitReturned(a)
         /\ lastRun.before.status = "online"
         /\ lastRun.before.missed_count = 0) =>
            /\ HasRecord(a)
            /\ db[a].status = lastRun.before.status
            /\ db[a].offline_since = lastRun.before.offline_since
            /\ db[a].missed_count = lastRun.before.missed_count
            /\ db[a].data = lastRun.before.data
            /\ db[a].seen_count >= lastRun.before.seen_count
            /\ db[a].updated_at >= lastRun.before.updated_at

\* The second Hit was applied on a later day than the first and counted.
C8_Witness ==
    \E a \in Addrs :
        /\ HitReturned(a)
        /\ lastRun.before.status = "online"
        /\ lastRun.before.missed_count = 0
        /\ lastRun.before.seen_count >= 1
        /\ db[a].seen_count = lastRun.before.seen_count + 1
        /\ db[a].updated_at > lastRun.before.updated_at

----------------------------------------------------------------------------
(* Properties of the sweep (SpecSerial). *)

\* The step in which a cleanup run gets the answer to its delete request and
\* returns {deleted: count}.
SweepReturns == cleanup.pc = "delete" /\ lastSweep' # None

\* The records a step removes.
Removed == {a \in Addrs : HasRecord(a) /\ db'[a] = NoRecord}

\* C7, as the code has it: a sweep run at time now deletes a record exactly
\* when it is offline and now - offline_since > serverDeleteThresholdDays (a
\* record offline for exactly the retention period stays); it deletes no
\* online record, changes no record it keeps, and returns the number deleted.
C7_SweepDeletesOlder ==
    [][SweepReturns =>
          /\ \A a \in Addrs :
                a \in Removed <=>
                    /\ db[a].status = "offline"
                    /\ now - db[a].offline_since > serverDeleteThresholdDays
          /\ \A a \in Addrs \ Removed : db'[a] = db[a]
          /\ lastSweep'.deleted = Cardinality(Removed)]_vars

\* C7, as stated: the same with the boundary included,
\* now - offline_since >= serverDeleteThresholdDays.
C7_SweepDeletesAtBoundary ==
    [][SweepReturns =>
          /\ \A a \in Addrs :
                a \in Removed <=>
                    /\ db[a].status = "offline"
                    /\ now - db[a].offline_since >= serverDeleteThresholdDays
          /\ \A a \in Addrs \ Removed : db'[a] = db[a]
          /\ lastSweep'.deleted = Cardinality(Removed)]_vars

\* A sweep has returned after deleting the one record that had been offline
\* for more than the retention period.
C7_Witness ==
    /\ lastSweep # None
    /\ lastSweep.deleted = 1
    /\ lastSweep.cutoffDate > 0
    /\ \E a \in Addrs : ~HasRecord(a) /\ missRun[a] >= serverOfflineThreshold

----------------------------------------------------------------------------
(* Properties of the polls (SpecMaster). *)

\* The timer of the repeatable job fires while a poll is running.
FiresDuringPoll == masterDelayed /\ ~masterDelayed' /\ master.pc # "idle"

\* C9: a timer firing that arrives while a poll is running is dropped: it is
\* not queued for later (no job joins the waiting list).
C9_FiringDropped ==
    [][FiresDuringPoll => masterWait' = masterWait]_vars

\* A poll ends because master.getServers failed: the step in which the query
\* rejects, and the step in which BullMQ settles the failed job.
QueryFailureStep ==
    \/ master.pc = "query" /\ master'.pc = "failed"
    \/ master.pc = "failed" /\ ~master.got /\ master'.pc = "idle"

----------------------------------------------------------------------------
(* Properties of the probe jobs (SpecSerial). *)

\* A step of the run in slot w after its probe has failed.
MissStep(w) ==
    /\ worker[w].pc \in {"query", "select", "update"}
    /\ worker[w].rec = None
    /\ worker'[w] # worker[w]
    /\ worker'[w].rec = None

\* C11: a run whose probe fails completes as a Miss: its handler returns null,
\* so the job is not put back for the second of its 2 attempts, and no step of
\* it changes the record of another address.
C11_MissIsolated ==
    [][\A w \in Workers :
          MissStep(w) =>
              /\ \A b \in Addrs \ {worker[w].addr} : db'[b] = db[b]
              /\ worker'[w].pc = "idle" =>
                    /\ lastRun'.ret = "null"
                    /\ serverQueue' = serverQueue]_vars

\* A Miss on a stored address has returned while another address has a record.
C11_Witness ==
    /\ lastRun # None
    /\ lastRun.ret = "null"
    /\ ~lastRun.answered
    /\ lastRun.before \notin {None, NoRecord}
    /\ \E b \in Addrs \ {lastRun.addr} : HasRecord(b)

\* C12: every task applies exactly one outcome: none returns without a
\* reconciliation (a run returns only after it has reached the store), and
\* none applies a Hit and then a Miss (a run that turns to the failure branch
\* after its upsert has left the table as it was).
C12_OneOutcome ==
    [][/\ (lastRun' # lastRun /\ lastRun' # None) => lastRun'.before # None
       /\ \A w \in Workers :
             (worker[w].pc = "rpc" /\ worker'[w].pc = "select") => db' = db]_vars

\* The task of address a was the last to finish, after reaching the store.
Reconciled(a) ==
    /\ lastRun # None
    /\ lastRun.addr = a
    /\ lastRun.before # None
    /\ ~InFlightOn(a)

\* C13: once the task of an address of a poll cycle has finished: if its probe
\* was answered, the address has an online record with seen_count >= 1; if
\* not, a record it had before has missed_count one higher, and an address
\* without a record still has none.
C13_CycleOutcome ==
    \A a \in Addrs :
        Reconciled(a) =>
            /\ lastRun.answered =>
                  /\ HasRecord(a)
                  /\ db[a].status = "online"
                  /\ db[a].seen_count >= 1
            /\ (~lastRun.answered /\ lastRun.before # NoRecord /\ HasRecord(a)) =>
                  db[a].missed_count = lastRun.before.missed_count + 1
            /\ (~lastRun.answered /\ lastRun.before = NoRecord) => ~HasRecord(a)

\* C15: after a completed reconciliation the record has exactly one of
\* seen_count and missed_count non-zero.
C15_OneCounterNonZero ==
    \A a \in Addrs :
        (Reconciled(a) /\ HasRecord(a)) =>
            (db[a].seen_count > 0 <=> db[a].missed_count = 0)

\* A store request of the run that returned last has failed: the upsert of a
\* Hit (the handler then returns null), or the select or update of a Miss.
StoreFailed ==
    \/ lastRun.answered /\ lastRun.ret = "null"
    \/ ~lastRun.answered /\ ~lastRun.clean

\* C18: a reconciliation in which a store request failed leaves the record of
\* its address as it was before.
C18_FailureChangesNothing ==
    \A a \in Addrs :
        (/\ Reconciled(a)
         /\ StoreFailed
         /\ HasRecord(a) \/ lastRun.before = NoRecord) =>
            db[a] = lastRun.before

----------------------------------------------------------------------------
(* Properties of overlapping reconciliations of one address (SpecProbes). *)

\* The run in slot w is between its first and its last store request: after
\* the upsert and before the rpc, after a failed upsert and before the select,
\* or after the select and before the update.
MidStore(w) ==
    \/ worker[w].pc \in {"rpc", "update"}
    \/ worker[w].pc = "select" /\ worker[w].error

\* C16: no two reconciliations of one address are between their first and
\* their last store request at once.
C16_Serialized ==
    \A v, w \in Workers :
        (v # w /\ worker[v].addr = worker[w].addr) => ~(MidStore(v) /\ MidStore(w))

\* C17: no Miss update is lost: with no reconciliation of an address in
\* flight, its missed_count is the number of Miss updates applied since the
\* last Hit.
C17_NoLostMiss ==
    \A a \in Addrs :
        (HasRecord(a) /\ ~InFlightOn(a)) => db[a].missed_count = missRun[a]

----------------------------------------------------------------------------
(* One poll alone, with a result of any length up to MaxServers: the loop    *)
(* that queues the probe jobs.                                               *)

\* A result of n distinct addresses.
Listing(n) == [k \in 1..n |-> <<ToString(k), "27015">>]

InitDispatch ==
    /\ now = 0
    /\ db = [a \in Addrs |-> NoRecord]
    /\ missRun = [a \in Addrs |-> 0]
    /\ lastRun = None
    /\ serverQueue = <<>>
    /\ worker = [w \in Workers |-> IdleWorker]
    /\ masterWait = <<InitialPoll>>
    /\ masterDelayed = TRUE
    /\ master = IdleMaster
    /\ polls = MaxPolls - 1
    /\ lastMasterUpdate = Null
    /\ cleanupWait = <<InitialCleanup>>
    /\ cleanupDelayed = TRUE
    /\ cleanup = IdleCleanup
    /\ lastSweep = None
    /\ shutdown = Running
    /\ request = IdleRequest

DispatchNext ==
    \/ MasterStart
    \/ \E n \in 0..MaxServers : MasterQueryOk(Listing(n))
    \/ \E ok \in BOOLEAN : MasterAddBulk(ok)
    \/ \E ok \in BOOLEAN : MasterSet(ok)
    \/ MasterFinish

SpecDispatch == InitDispatch /\ [][DispatchNext]_vars

\* The jobs a step appends to 'server-query'.
Added == SubSeq(serverQueue', Len(serverQueue) + 1, Len(serverQueue'))

\* C19: the dispatch of a result of n addresses makes ceil(n/100) bulk
\* enqueues, each of exactly 100 jobs except possibly the last, in the order
\* of the result, one job per address of the result.
C19_Batches ==
    [][/\ (master.pc = "enqueue" /\ master'.pc \in {"enqueue", "set"}) =>
             LET n == Len(master.servers)
                 i == master.i
             IN  /\ i % 100 = 0
                 /\ Len(serverQueue') = Len(serverQueue) + Len(Added)
                 /\ SubSeq(serverQueue', 1, Len(serverQueue)) = serverQueue
                 /\ Len(Added) = IF n - i >= 100 THEN 100 ELSE n - i
                 /\ Len(Added) > 0
                 /\ \A k \in 1..Len(Added) : Added[k].addr = master.servers[i + k]
                 /\ master'.pc = "set" <=> i + Len(Added) = n
                 /\ master'.pc = "set" =>
                       /\ (i \div 100) + 1 = (n + 99) \div 100
                       /\ Len(serverQueue') = n
       /\ (master.pc = "query" /\ master'.pc = "set") =>
             /\ Len(master'.servers) = 0
             /\ serverQueue' = serverQueue]_vars

\* The dispatch of 250 addresses is over after bulk enqueues at 0, 100 and 200.
C19_Witness ==
    /\ master.pc = "set"
    /\ Len(master.servers) = 250
    /\ master.i = 300
    /\ Len(serverQueue) = 250
    /\ serverQueue[250].addr = master.servers[250]

----------------------------------------------------------------------------
(* One answered probe alone, with serverData of any of the sample names,     *)
(* maps and tags: the classification of the server.                          *)

\* serverData.name
SampleNames ==
    {<<"B", "e", "s", "t", " ", "A", "W", "P", " ", "1", "v", "1", " ", "S", "e", "r", "v", "e", "r">>,
     <<"c", "a", "s", "u", "a", "l", " ", "p", "u", "b">>,
     <<"C", "o", "m", "b", "a", "t", " ", "S", "u", "r", "f", " ", "D", "M">>,
     <<"R", "e", "t", "a", "k", "e">>,
     <<"C", "o", "m", "b", "a", "t", " ", "D", "M">>,
     <<"P", "r", "o", "p", " ", "H", "u", "n", "t">>,
     <<"J", "a", "i", "l", "B", "r", "e", "a", "k", " ", "A", "r", "m", "s", " ", "R", "a", "c", "e">>}

\* serverData.map
SampleMaps ==
    {<<"s", "u", "r", "f", "_", "k", "i", "t", "s", "u", "n", "e">>,
     <<"a", "i", "m", "_", "a", "r", "e", "n", "a">>,
     <<"d", "e", "_", "d", "u", "s", "t", "2">>,
     <<"a", "w", "p", "_", "l", "e", "g", "o">>,
     <<"m", "g", "_", "f", "u", "n">>,
     <<"k", "z", "_", "c", "l", "i", "f", "f">>,
     <<"Z", "E", "_", "E", "s", "c", "a", "p", "e">>}

\* Lists of tags, in lower case.
SampleTags ==
    {<<>>,
     <<<<"d", "m">>>>,
     <<<<"h", "n", "s">>, <<"g", "g">>>>,
     <<<<"s", "e", "c", "u", "r", "e">>, <<"b", "h", "o", "p">>>>,
     <<<<"c", "l", "i", "m", "b">>, <<"j", "b">>>>}

\* serverData.raw.tags: each list as an array and as its comma-joined string,
\* or missing.
SampleRawTags ==
    {TagArray(t) : t \in SampleTags} \cup {TagString(join(t)) : t \in SampleTags}
        \cup {NoTags}

ServerDataSamples ==
    {[name |-> n, map |-> m, tags |-> t] :
        n \in SampleNames, m \in SampleMaps, t \in SampleRawTags}

InitClassify ==
    /\ now = 0
    /\ db = [a \in Addrs |-> NoRecord]
    /\ missRun = [a \in Addrs |-> 0]
    /\ lastRun = None
    /\ serverQueue = Jobs(<<A1>>)
    /\ worker = [w \in Workers |-> IdleWorker]
    /\ masterWait = <<>>
    /\ masterDelayed = TRUE
    /\ master = IdleMaster
    /\ polls = MaxPolls
    /\ lastMasterUpdate = now
    /\ cleanupWait = <<InitialCleanup>>
    /\ cleanupDelayed = TRUE
    /\ cleanup = IdleCleanup
    /\ lastSweep = None
    /\ shutdown = Running
    /\ request = IdleRequest

ClassifyNext ==
    \E w \in Workers :
        \/ Dequeue(w)
        \/ \E d \in ServerDataSamples : ProbeOk(w, d)

SpecClassify == InitClassify /\ [][ClassifyNext]_vars

\* The tags of the rules in the order the claim gives.
RuleOrder ==
    <<"surf", "bhop", "ze", "kz", "dm", "retake", "awp", "aim", "jb", "gungame",
      "csurf", "mg", "hns">>

\* The rule of a tag applies to serverData.
Matches(tag, serverData) ==
    LET name == toLowerCase(serverData.name)
        map == toLowerCase(serverData.map)
        tags == Tags(serverData)
    IN  CASE tag = "surf" -> rule_surf(name, map, tags)
          [] tag = "bhop" -> rule_bhop(name, map, tags)
          [] tag = "ze" -> rule_ze(name, map, tags)
          [] tag = "kz" -> rule_kz(name, map, tags)
          [] tag = "dm" -> rule_dm(name, map, tags)
          [] tag = "retake" -> rule_retake(name, map, tags)
          [] tag = "awp" -> rule_awp(name, map, tags)
          [] tag = "aim" -> rule_aim(name, map, tags)
          [] tag = "jb" -> rule_jb(name, map, tags)
          [] tag = "gungame" -> rule_gungame(name, map, tags)
          [] tag = "csurf" -> rule_csurf(name, map, tags)
          [] tag = "mg" -> rule_mg(name, map, tags)
          [] tag = "hns" -> rule_hns(name, map, tags)

\* The tag of the first rule of RuleOrder that applies, or 'public'.
FirstMatch(serverData) ==
    IF \E k \in 1..Len(RuleOrder) : Matches(RuleOrder[k], serverData)
    THEN RuleOrder[CHOOSE k \in 1..Len(RuleOrder) :
                      /\ Matches(RuleOrder[k], serverData)
                      /\ \A j \in 1..(k - 1) : ~Matches(RuleOrder[j], serverData)]
    ELSE "public"

\* The examples of the claim, without tags.
AwpOneVsOne == [name |-> <<"B", "e", "s", "t", " ", "A", "W", "P", " ", "1", "v", "1", " ", "S", "e", "r", "v", "e", "r">>, map |-> <<"a", "i", "m", "_", "a", "r", "e", "n", "a">>, tags |-> NoTags]
CasualDust == [name |-> <<"c", "a", "s", "u", "a", "l", " ", "p", "u", "b">>, map |-> <<"d", "e", "_", "d", "u", "s", "t", "2">>, tags |-> NoTags]

\* C14: the gamemode written into the row object is the tag of the first rule
\* that applies in the order surf, bhop, ze, kz, dm, retake, awp, aim, jb,
\* gungame, csurf, mg, hns, and 'public' when none does; 'Best AWP 1v1 Server'
\* on aim_arena is awp, map surf_kitsune is surf, 'casual pub' on de_dust2 is
\* public.
C14_FirstRuleWins ==
    \A w \in Workers :
        worker[w].rec # None =>
            LET d == worker[w].rec.data
                g == worker[w].rec.gamemode
            IN  /\ g = FirstMatch(d)
                /\ d = AwpOneVsOne => g = "awp"
                /\ d.map = <<"s", "u", "r", "f", "_", "k", "i", "t", "s", "u", "n", "e">> => g = "surf"
                /\ d = CasualDust => g = "public"

\* The server that matches the awp rule and the aim rule has been classified.
C14_Witness ==
    \E w \in Workers :
        /\ worker[w].rec # None
        /\ worker[w].rec.data = AwpOneVsOne
        /\ Matches("awp", AwpOneVsOne)
        /\ Matches("aim", AwpOneVsOne)
        /\ worker[w].rec.gamemode = "awp"

\* serverData with its tags upper-cased, and with its tags comma-joined.
UpperTags(d) ==
    [d EXCEPT !.tags = TagArray([k \in 1..Len(d.tags.value) |->
                                    toUpperCase(d.tags.value[k])])]
JoinedTags(d) == [d EXCEPT !.tags = TagString(join(d.tags.value))]

\* C20: the classification is the same for tags given as a list, as the
\* comma-joined string of the list, and with their letters upper-cased.
C20_TagsNormalized ==
    \A w \in Workers :
        (worker[w].rec # None /\ worker[w].rec.data.tags.type = "array") =>
            LET d == worker[w].rec.data
            IN  /\ detectGamemode(JoinedTags(d)) = worker[w].rec.gamemode
                /\ detectGamemode(UpperTags(d)) = worker[w].rec.gamemode

\* The combat-surf rule applies to serverData.
CombatSurf(serverData) == Matches("csurf", serverData)

\* C23: detectGamemode never returns 'csurf': serverData to which the
\* combat-surf rule applies (surf map or surf in the name, with 'combat' or
\* 'dm' in the name) already satisfies an earlier rule of the order, so the
\* gamemode written into the row object is never 'csurf'.
C23_CsurfUnreachable ==
    \A w \in Workers :
        worker[w].rec # None =>
            LET d == worker[w].rec.data
            IN  /\ worker[w].rec.gamemode # "csurf"
                /\ CombatSurf(d) =>
                       \E k \in 1..10 : Matches(RuleOrder[k], d)

\* A server on a surf map with 'combat' in its name, which the combat-surf
\* rule fits by the map alone, has been classified, as surf.
C23_Witness ==
    \E w \in Workers :
        /\ worker[w].rec # None
        /\ CombatSurf(worker[w].rec.data)
        /\ ~includes(toLowerCase(worker[w].rec.data.name), <<"s", "u", "r", "f">>)
        /\ worker[w].rec.gamemode = "surf"

----------------------------------------------------------------------------
(* The key 'last_master_update' (SpecMaster: nothing takes jobs from         *)
(* 'server-query', so the jobs a poll has queued are the end of the queue).  *)

\* The step in which redisClient.set resolves.
WritesStamp == master.pc = "set" /\ master'.pc = "done"

\* The last Len(servers) jobs of 'server-query' are the jobs of servers.
QueuedLast(servers) ==
    LET n == Len(servers)
        m == Len(serverQueue)
    IN  /\ m >= n
        /\ SubSeq(serverQueue, m - n + 1, m) = Jobs(servers)

\* C22: 'last_master_update' is written only by a poll that has queued a probe
\* job for every address of its result: a poll whose query or addBulk failed
\* never writes it, and a poll job that completes has written it.
C22_StampAfterEnqueue ==
    [][/\ WritesStamp =>
             /\ master.got
             /\ QueuedLast(master.servers)
             /\ lastMasterUpdate' = now
       /\ ~WritesStamp => lastMasterUpdate' = lastMasterUpdate
       /\ (master.pc # "failed" /\ master'.pc = "failed") =>
             /\ master.pc \in {"query", "enqueue", "set"}
             /\ lastMasterUpdate' = lastMasterUpdate
       /\ (master.pc # "done" /\ master'.pc = "done") => WritesStamp
       /\ (master.pc = "done" /\ master'.pc = "idle") =>
             lastMasterUpdate = now]_vars

\* A second or later poll, run at a later instant, has queued its two
\* addresses and written the key.
C22_Witness ==
    /\ master.pc = "done"
    /\ Len(master.servers) = 2
    /\ QueuedLast(master.servers)
    /\ now > 0
    /\ lastMasterUpdate = now
    /\ polls >= 2

----------------------------------------------------------------------------
(* Requests to GET /api/servers alone, with page and limit of any of the     *)
(* sample values.                                                            *)

\* Values of a parameter: not given, empty, not a number, zero, negative,
\* within and above the limit of 100, with a fraction, with blanks or text
\* around the digits.
QueryValues ==
    {Absent,
     Given(<<>>),
     Given(<<"a", "b", "c">>),
     Given(<<"0">>),
     Given(<<"-", "0">>),
     Given(<<"1">>),
     Given(<<"2">>),
     Given(<<"7">>),
     Given(<<"5", "0">>),
     Given(<<"1", "0", "0">>),
     Given(<<"1", "0", "1">>),
     Given(<<"-", "3">>),
     Given(<<"2", ".", "5">>),
     Given(<<" ", "1", "2">>),
     Given(<<"3", "a", "b", "c">>)}

PagingNext ==
    \/ \E page \in QueryValues, limit \in QueryValues : Receive(page, limit)
    \/ CacheHit
    \/ Paginate
    \/ Respond

SpecPaging == Init /\ [][PagingNext]_vars

\* C24: whatever page and limit are (absent, not a number, zero, negative,
\* above 100), the effective page is at least 1, the effective page size is
\* between 1 and 100, and the range of rows asked for has start >= 0 and
\* end >= start.
C24_PageRange ==
    request.pc = "query" =>
        /\ request.pageInt >= 1
        /\ request.limitInt >= 1
        /\ request.limitInt <= 100
        /\ request.start >= 0
        /\ request.end >= request.start

----------------------------------------------------------------------------
(* The worker process through one poll, its probes and the cleanups, with a  *)
(* shutdown signal at any moment.                                            *)

InitShutdown ==
    /\ now = 0
    /\ db = [a \in Addrs |-> NoRecord]
    /\ missRun = [a \in Addrs |-> 0]
    /\ lastRun = None
    /\ serverQueue = <<>>
    /\ worker = [w \in Workers |-> IdleWorker]
    /\ masterWait = <<InitialPoll>>
    /\ masterDelayed = TRUE
    /\ master = IdleMaster
    /\ polls = MaxPolls - 1
    /\ lastMasterUpdate = Null
    /\ cleanupWait = <<InitialCleanup>>
    /\ cleanupDelayed = TRUE
    /\ cleanup = IdleCleanup
    /\ lastSweep = None
    /\ shutdown = Running
    /\ request = IdleRequest

ShutdownNext ==
    \/ \E w \in Workers : WorkerStep(w)
    \/ MasterStep
    \/ CleanupStep
    \/ ShutdownStep

SpecShutdown == InitShutdown /\ [][ShutdownNext]_vars

\* The execution of a poll or of a sweep begins.
Begins ==
    \/ master.pc = "idle" /\ master'.pc # "idle"
    \/ cleanup.pc = "idle" /\ cleanup'.pc # "idle"

\* The runs that were in flight at the signal have finished.
Finished ==
    /\ shutdown.atSignal.master => master.pc = "idle"
    /\ shutdown.atSignal.cleanup => cleanup.pc = "idle"
    /\ \A w \in shutdown.atSignal.server : worker[w].pc = "idle"

\* C21: once a shutdown signal has been received no poll or sweep execution
\* begins, and the process exits only after every job that was in flight at
\* the signal has finished.
C21_ShutdownOrder ==
    [][/\ shutdown.pc # "running" => ~Begins
       /\ shutdown'.pc = "exited" => Finished']_vars

\* The process has exited after a signal that found the poll, a sweep and a
\* probe in flight.
C21_Witness ==
    /\ shutdown.pc = "exited"
    /\ shutdown.atSignal.master
    /\ shutdown.atSignal.cleanup
    /\ shutdown.atSignal.server # {}

====
